---- MODULE Spec2Model ----
(***************************************************************************)
(* Model of mockfirestore/main.py: an in-memory emulation of the Firestore *)
(* client.  Python dicts are objects with identity, so the store is a heap *)
(* of dicts; a dict is the sequence of its entries in insertion order.     *)
(***************************************************************************)
EXTENDS Integers, Sequences, FiniteSets, TLC

VARIABLES heap,     \* heap[a]: the dict object at address a (entries in insertion order)
          root,     \* MockFirestore._data: address of the current root dict
          old,      \* the root dict the caller's pre-reset handles point to (0: none)
          pre,      \* during a call's return: the heap as it was before the call
          res       \* the call that is returning, with its arguments and its outcome

vars == <<heap, root, old, pre, res>>

(* ------------------------------ bounds -------------------------------- *)
MaxHeap == 4        \* dict objects alive at once
MaxDepth == 3       \* longest path of a handle
MaxVal == 2         \* values of field n are 1..MaxVal

TopNames == {"c"}               \* names passed to MockFirestore.collection
DocIds == {"a", "b"}            \* document ids passed to document / add
SubNames == {"n"}               \* names passed to DocumentReference.collection
Vals == 1..MaxVal

(* lexicographic order of the strings in use (all of length one) *)
NameOrder == <<"a", "b", "c", "m", "n">>
Rank(s) == CHOOSE i \in DOMAIN NameOrder : NameOrder[i] = s
StrLess(s, t) == Rank(s) < Rank(t)

(* ------------------------------ values -------------------------------- *)
IntV(n) == [t |-> "int", v |-> n]
RefV(a) == [t |-> "ref", v |-> a]
IsRef(x) == x.t = "ref"
Entry(k, x) == [k |-> k, val |-> x]

Range(s) == {s[i] : i \in DOMAIN s}
Keys(d) == {d[i].k : i \in DOMAIN d}
HasKey(d, k) == \E i \in DOMAIN d : d[i].k = k
Lookup(d, k) == d[CHOOSE i \in DOMAIN d : d[i].k = k].val

(* d[k] = x : an existing key keeps its position, a new key goes last *)
SetItem(d, k, x) ==
    IF HasKey(d, k)
    THEN [i \in DOMAIN d |-> IF d[i].k = k THEN Entry(k, x) ELSE d[i]]
    ELSE Append(d, Entry(k, x))

(* del d[k] *)
DelItem(d, k) == SelectSeq(d, LAMBDA e : e.k # k)

(* as DictUpdate, but a key the dict has already keeps its value *)
RECURSIVE DictUpdate_keepOld(_, _)
DictUpdate_keepOld(d, data) ==
    IF data = <<>> THEN d
    ELSE DictUpdate_keepOld(IF HasKey(d, Head(data).k) THEN d
                            ELSE SetItem(d, Head(data).k, Head(data).val), Tail(data))

(* d.update(data) *)
RECURSIVE DictUpdate(_, _)
DictUpdate(d, data) ==
    IF data = <<>> THEN d
    ELSE DictUpdate(SetItem(d, Head(data).k, Head(data).val), Tail(data))

(* the mappings the caller writes as literals, over the keys m and n *)
OptEntry(k, xs) == {<<>>} \cup {<<Entry(k, IntV(x))>> : x \in xs}
DataLits == OptEntry("m", {1}) \cup OptEntry("n", Vals)

(* --------------------------- path access ------------------------------ *)
Ok(x) == [err |-> "none", val |-> x]
Fail(e) == [err |-> e, val |-> IntV(0)]

(* reduce(operator.getitem, path, data) *)
RECURSIVE get_by_path(_, _, _)
get_by_path(hp, data, path) ==
    IF path = <<>> THEN Ok(data)
    ELSE IF ~IsRef(data) THEN Fail("TypeError")
    ELSE IF ~HasKey(hp[data.v], Head(path)) THEN Fail("KeyError")
    ELSE get_by_path(hp, Lookup(hp[data.v], Head(path)), Tail(path))

Front(path) == SubSeq(path, 1, Len(path) - 1)
Last(path) == path[Len(path)]

HeapRes(e, hp) == [err |-> e, heap |-> hp]

(* get_by_path(data, path[:-1])[path[-1]] = value *)
set_by_path(hp, data, path, value) ==
    LET p == get_by_path(hp, data, Front(path)) IN
    IF p.err # "none" THEN HeapRes(p.err, hp)
    ELSE IF ~IsRef(p.val) THEN HeapRes("TypeError", hp)
    ELSE HeapRes("none", [hp EXCEPT ![p.val.v] = SetItem(@, Last(path), value)])

(* as delete_by_path, but passing over a key that is not there *)
delete_by_path_quiet(hp, data, path) ==
    LET p == get_by_path(hp, data, Front(path)) IN
    IF p.err # "none" THEN HeapRes(p.err, hp)
    ELSE IF ~IsRef(p.val) THEN HeapRes("TypeError", hp)
    ELSE HeapRes("none", [hp EXCEPT ![p.val.v] = DelItem(@, Last(path))])

(* del get_by_path(data, path[:-1])[path[-1]] *)
delete_by_path(hp, data, path) ==
    LET p == get_by_path(hp, data, Front(path)) IN
    IF p.err # "none" THEN HeapRes(p.err, hp)
    ELSE IF ~IsRef(p.val) THEN HeapRes("TypeError", hp)
    ELSE IF ~HasKey(hp[p.val.v], Last(path)) THEN HeapRes("KeyError", hp)
    ELSE HeapRes("none", [hp EXCEPT ![p.val.v] = DelItem(@, Last(path))])

(* a new dict object: its address and the heap holding it *)
NewAddr(hp) == Len(hp) + 1
Alloc(hp, d) == Append(hp, d)

(* ------------------------- object lifetime ---------------------------- *)
(* Objects live while something refers to them.  Addresses are only names; *)
(* between calls the live objects are renumbered in the order a depth-     *)
(* first walk from the roots meets them.                                   *)
RefsOf(d) == SelectSeq([i \in DOMAIN d |-> d[i].val], IsRef)
AddrsOf(d) == [i \in DOMAIN RefsOf(d) |-> RefsOf(d)[i].v]

RECURSIVE Walk(_, _, _)
Walk(hp, todo, seen) ==
    IF todo = <<>> THEN seen
    ELSE IF Head(todo) \in Range(seen) THEN Walk(hp, Tail(todo), seen)
    ELSE Walk(hp, AddrsOf(hp[Head(todo)]) \o Tail(todo), Append(seen, Head(todo)))

Seeds(r, o) == IF o = 0 THEN <<r>> ELSE <<r, o>>
Live(hp, r, o) == Walk(hp, Seeds(r, o), <<>>)
NewName(order, a) == CHOOSE i \in DOMAIN order : order[i] = a
Renamed(order, d) ==
    [i \in DOMAIN d |-> IF IsRef(d[i].val)
                        THEN Entry(d[i].k, RefV(NewName(order, d[i].val.v)))
                        ELSE d[i]]
Compact(hp, order) == [i \in DOMAIN order |-> Renamed(order, hp[order[i]])]

(* ------------------------------ handles ------------------------------- *)
Handle(r, p) == [root |-> r, path |-> p]
NoHandle == Handle(0, <<>>)
IsColl(h) == Len(h.path) % 2 = 1
IsDoc(h) == Len(h.path) > 0 /\ Len(h.path) % 2 = 0

(* paths alternate collection name, document id, collection name, ... *)
RECURSIVE PathsOfLen(_)
PathsOfLen(n) ==
    IF n = 1 THEN {<<c>> : c \in TopNames}
    ELSE {Append(p, s) : p \in PathsOfLen(n - 1),
                         s \in IF n % 2 = 0 THEN DocIds ELSE SubNames}
AllPaths == UNION {PathsOfLen(n) : n \in 1..MaxDepth}

(* A handle is (store dict, path) and outlives what it points to: the      *)
(* caller got it while the path resolved (document and collection write    *)
(* only when the last segment is absent) and may use it after a delete, an *)
(* overwrite or a reset.  The caller keeps the handles of the current tree *)
(* and of the tree the last reset discarded.                               *)
HandlesOf(hp, r) ==
    IF r = 0 THEN {} ELSE {Handle(r, p) : p \in {q \in AllPaths : HasKey(hp[r], q[1])}}
Handles == HandlesOf(heap, root) \cup HandlesOf(heap, old)
DocHandles == {h \in Handles : IsDoc(h)}
CollHandles == {h \in Handles : IsColl(h)}

(* ------------------------------ results ------------------------------- *)
NoRes == [op |-> "idle", h |-> NoHandle, name |-> "", data |-> <<>>, obj |-> 0,
          merge |-> FALSE, q |-> <<>>, err |-> "none", ret |-> NoHandle, out |-> <<>>]
Idle == res = NoRes
CanAlloc == Len(heap) < MaxHeap

Finish(hp, r, o, rs) ==
    /\ heap' = hp
    /\ root' = r
    /\ old' = o
    /\ pre' = heap
    /\ res' = rs

Init ==
    /\ heap = <<<<>>>>
    /\ root = 1
    /\ old = 0
    /\ pre = <<>>
    /\ res = NoRes

(* the call has returned: the caller drops the result *)
Return ==
    /\ ~Idle
    /\ LET order == Live(heap, root, old) IN
       /\ heap' = Compact(heap, order)
       /\ root' = NewName(order, root)
       /\ old' = IF old = 0 THEN 0 ELSE NewName(order, old)
    /\ pre' = <<>>
    /\ res' = NoRes

(* ------------------------- MockFirestore ------------------------------ *)
(* if name not in self._data: self._data[name] = {} *)
MockFirestore_collection(hp, r, name) ==
    IF ~HasKey(hp[r], name)
    THEN [Alloc(hp, <<>>) EXCEPT ![r] = SetItem(@, name, RefV(NewAddr(hp)))]
    ELSE hp

(* as MockFirestore_reset, but keeping the dict *)
MockFirestore_reset_keep(hp, r) == [heap |-> hp, root |-> r]

(* self._data = {}: the heap and the root after it *)
MockFirestore_reset(hp, r) == [heap |-> Alloc(hp, <<>>), root |-> NewAddr(hp)]

(* ------------------------ caller's mappings --------------------------- *)
(* A mapping argument is a literal written at the call (obj = 0) or a dict *)
(* object the caller already holds: what to_dict() of a snapshot returns   *)
(* is the stored object itself, so every document of the store is one.     *)
LitArg(d) == [obj |-> 0, lit |-> d]
ObjArg(a) == [obj |-> a, lit |-> <<>>]
Contents(hp, arg) == IF arg.obj = 0 THEN arg.lit ELSE hp[arg.obj]

Outcome(e, hp, a) == [err |-> e, heap |-> hp, obj |-> a]

(* ------------------------- DocumentReference -------------------------- *)
(* self._path[-1] *)
DocumentReference_id(h) == Last(h.path)

(* DocumentSnapshot(get_by_path(self._data, self._path)) *)
DocumentReference_get(hp, h) == get_by_path(hp, RefV(h.root), h.path)

(* DocumentSnapshot.exists and to_dict, of the object x the snapshot wraps *)
exists(hp, x) == IF IsRef(x) THEN hp[x.v] # <<>> ELSE TRUE
to_dict(hp, x) == hp[x.v]

DocumentReference_delete(hp, h) ==
    LET d == delete_by_path(hp, RefV(h.root), h.path) IN Outcome(d.err, d.heap, 0)

(* get_by_path(self._data, self._path).update(data) *)
DocumentReference_update(hp, h, arg) ==
    LET g == get_by_path(hp, RefV(h.root), h.path) IN
    IF g.err # "none" THEN Outcome(g.err, hp, 0)
    ELSE IF ~IsRef(g.val) THEN Outcome("AttributeError", hp, 0)
    ELSE Outcome("none", [hp EXCEPT ![g.val.v] = DictUpdate(@, Contents(hp, arg))], 0)

(* as DocumentReference_set, but merging whatever merge is *)
DocumentReference_set_merging(hp, h, arg, merge) == DocumentReference_update(hp, h, arg)

(* as DocumentReference_set, but a literal written over a document takes   *)
(* over the sub-collections of that document                               *)
DocumentReference_set_keepSubs(hp, h, arg, merge) ==
    IF merge THEN DocumentReference_update(hp, h, arg)
    ELSE LET g == get_by_path(hp, RefV(h.root), h.path)
             subs == IF g.err = "none" /\ IsRef(g.val)
                     THEN SelectSeq(hp[g.val.v], LAMBDA e : IsRef(e.val)) ELSE <<>>
             hp1 == IF arg.obj = 0 THEN Alloc(hp, DictUpdate_keepOld(arg.lit, subs)) ELSE hp
             a == IF arg.obj = 0 THEN NewAddr(hp) ELSE arg.obj
             s == set_by_path(hp1, RefV(h.root), h.path, RefV(a))
         IN IF s.err # "none" THEN Outcome(s.err, hp, 0) ELSE Outcome("none", s.heap, a)

(* set_by_path stores the caller's object itself, not a copy of it *)
DocumentReference_set(hp, h, arg, merge) ==
    IF merge THEN DocumentReference_update(hp, h, arg)
    ELSE LET hp1 == IF arg.obj = 0 THEN Alloc(hp, arg.lit) ELSE hp
             a == IF arg.obj = 0 THEN NewAddr(hp) ELSE arg.obj
             s == set_by_path(hp1, RefV(h.root), h.path, RefV(a))
         IN IF s.err # "none" THEN Outcome(s.err, hp, 0) ELSE Outcome("none", s.heap, a)

DocumentReference_collection(hp, h, name) ==
    LET g == get_by_path(hp, RefV(h.root), h.path) IN
    IF g.err # "none" THEN Outcome(g.err, hp, 0)
    ELSE IF ~IsRef(g.val) THEN Outcome("TypeError", hp, 0)
    ELSE IF ~HasKey(hp[g.val.v], name)
         THEN LET s == set_by_path(Alloc(hp, <<>>), RefV(h.root),
                                   Append(h.path, name), RefV(NewAddr(hp)))
              IN Outcome(s.err, s.heap, 0)
         ELSE Outcome("none", hp, 0)

(* ------------------------ CollectionReference ------------------------- *)
(* as CollectionReference_document, but writing {} over a document there is *)
CollectionReference_document_reset(hp, h, name) ==
    LET g == get_by_path(hp, RefV(h.root), h.path) IN
    IF g.err # "none" THEN Outcome(g.err, hp, 0)
    ELSE IF ~IsRef(g.val) THEN Outcome("TypeError", hp, 0)
    ELSE LET s == set_by_path(Alloc(hp, <<>>), RefV(h.root),
                              Append(h.path, name), RefV(NewAddr(hp)))
         IN Outcome(s.err, s.heap, 0)

(* name is the id asked for, or the generated one when it was omitted *)
CollectionReference_document(hp, h, name) ==
    LET g == get_by_path(hp, RefV(h.root), h.path) IN
    IF g.err # "none" THEN Outcome(g.err, hp, 0)
    ELSE IF ~IsRef(g.val) THEN Outcome("TypeError", hp, 0)
    ELSE IF ~HasKey(hp[g.val.v], name)
         THEN LET s == set_by_path(Alloc(hp, <<>>), RefV(h.root),
                                   Append(h.path, name), RefV(NewAddr(hp)))
              IN Outcome(s.err, s.heap, 0)
         ELSE Outcome("none", hp, 0)

(* as CollectionReference_add, but without the check for an existing id *)
CollectionReference_add_overwrite(hp, h, arg, document_id) ==
    LET g == get_by_path(hp, RefV(h.root), h.path) IN
    IF g.err # "none" THEN Outcome(g.err, hp, 0)
    ELSE IF ~IsRef(g.val) THEN Outcome("TypeError", hp, 0)
    ELSE DocumentReference_set(hp, Handle(h.root, Append(h.path, document_id)), arg, FALSE)

(* as CollectionReference_add, but taking a document for existing when its *)
(* snapshot exists                                                         *)
CollectionReference_add_ifExists(hp, h, arg, document_id) ==
    LET g == get_by_path(hp, RefV(h.root), h.path) IN
    IF g.err # "none" THEN Outcome(g.err, hp, 0)
    ELSE IF ~IsRef(g.val) THEN Outcome("TypeError", hp, 0)
    ELSE IF HasKey(hp[g.val.v], document_id)
            /\ exists(hp, Lookup(hp[g.val.v], document_id))
         THEN Outcome("AlreadyExists", hp, 0)
    ELSE DocumentReference_set(hp, Handle(h.root, Append(h.path, document_id)), arg, FALSE)

(* document_id is the id given, else document_data.get('id', generated id); *)
(* no mapping here has the key 'id', so an omitted id is the generated one  *)
CollectionReference_add(hp, h, arg, document_id) ==
    LET g == get_by_path(hp, RefV(h.root), h.path) IN
    IF g.err # "none" THEN Outcome(g.err, hp, 0)
    ELSE IF ~IsRef(g.val) THEN Outcome("TypeError", hp, 0)
    ELSE IF HasKey(hp[g.val.v], document_id) THEN Outcome("AlreadyExists", hp, 0)
    ELSE DocumentReference_set(hp, Handle(h.root, Append(h.path, document_id)), arg, FALSE)

(* ------------------------------- Query -------------------------------- *)
(* A Query holds an OrderedDict: the sequence of its (id, document) items.  *)
QOk(items) == [err |-> "none", items |-> items]
QFail(e) == [err |-> e, items |-> <<>>]

Reverse(s) == [i \in DOMAIN s |-> s[Len(s) + 1 - i]]

(* sorted(): stable, by an integer key; x goes behind the items that are not greater *)
RECURSIVE Insert(_, _)
Insert(s, x) ==
    IF s = <<>> THEN <<x>>
    ELSE IF x.key < Head(s).key THEN <<x>> \o s
    ELSE <<Head(s)>> \o Insert(Tail(s), x)

RECURSIVE Sorted(_)
Sorted(s) == IF s = <<>> THEN <<>> ELSE Insert(Sorted(Front(s)), Last(s))

Keyed(items, keys) == [i \in DOMAIN items |-> [key |-> keys[i], e |-> items[i]]]
Unkeyed(s) == [i \in DOMAIN s |-> s[i].e]

(* as Query, but never sorting *)
Query_asGiven(data, isOrderedDict) == data

(* Query.__init__: an OrderedDict is taken as it is, any other mapping is   *)
(* sorted by document id                                                   *)
Query(data, isOrderedDict) ==
    IF isOrderedDict THEN data
    ELSE Unkeyed(Sorted(Keyed(data, [i \in DOMAIN data |-> Rank(data[i].k)])))

(* (DocumentSnapshot(doc) for doc in self._data.values()) *)
Query_get(q) == [i \in DOMAIN q |-> q[i].val]

CompareOps == {"==", "<", "<=", ">", ">="}
(* the comparison function, or None when no branch matches *)
compare_func(op) == IF op \in CompareOps THEN op ELSE "None"

(* as Compare, but with > taken for >= *)
Compare_orEqual(cmp, x, y) ==
    IF cmp = "None" THEN [err |-> "TypeError", b |-> FALSE]
    ELSE IF cmp = "==" THEN [err |-> "none", b |-> ~IsRef(x) /\ x.v = y]
    ELSE IF IsRef(x) THEN [err |-> "TypeError", b |-> FALSE]
    ELSE [err |-> "none", b |-> CASE cmp = "<" -> x.v < y
                                  [] cmp = "<=" -> x.v <= y
                                  [] cmp = ">" -> x.v >= y
                                  [] cmp = ">=" -> x.v >= y]

(* compare(x, y), y a number: a dict equals no number and is not ordered with one *)
Compare(cmp, x, y) ==
    IF cmp = "None" THEN [err |-> "TypeError", b |-> FALSE]
    ELSE IF cmp = "==" THEN [err |-> "none", b |-> ~IsRef(x) /\ x.v = y]
    ELSE IF IsRef(x) THEN [err |-> "TypeError", b |-> FALSE]
    ELSE [err |-> "none", b |-> CASE cmp = "<" -> x.v < y
                                  [] cmp = "<=" -> x.v <= y
                                  [] cmp = ">" -> x.v > y
                                  [] cmp = ">=" -> x.v >= y]

(* v[field] for the document v of an item *)
FieldOf(hp, v, field) ==
    IF ~IsRef(v) THEN Fail("TypeError")
    ELSE IF ~HasKey(hp[v.v], field) THEN Fail("KeyError")
    ELSE Ok(Lookup(hp[v.v], field))

(* as Filter, but leaving out a document whose field cannot be read *)
RECURSIVE Filter_skipMissing(_, _, _, _, _)
Filter_skipMissing(hp, items, field, cmp, value) ==
    IF items = <<>> THEN QOk(<<>>)
    ELSE LET x == FieldOf(hp, Head(items).val, field)
             rest == Filter_skipMissing(hp, Tail(items), field, cmp, value)
         IN IF x.err # "none" THEN rest
            ELSE LET c == Compare(cmp, x.val, value) IN
                 IF c.err # "none" THEN QFail(c.err)
                 ELSE IF rest.err # "none" THEN rest
                 ELSE QOk((IF c.b THEN <<Head(items)>> ELSE <<>>) \o rest.items)

(* OrderedDict((k, v) for k, v in items if compare(v[field], value)): the  *)
(* items are taken in order and the first error ends the call              *)
RECURSIVE Filter(_, _, _, _, _)
Filter(hp, items, field, cmp, value) ==
    IF items = <<>> THEN QOk(<<>>)
    ELSE LET x == FieldOf(hp, Head(items).val, field) IN
         IF x.err # "none" THEN QFail(x.err)
         ELSE LET c == Compare(cmp, x.val, value) IN
              IF c.err # "none" THEN QFail(c.err)
              ELSE LET rest == Filter(hp, Tail(items), field, cmp, value) IN
                   IF rest.err # "none" THEN rest
                   ELSE QOk((IF c.b THEN <<Head(items)>> ELSE <<>>) \o rest.items)

Query_where(hp, q, field, op, value) ==
    LET r == Filter(hp, q, field, compare_func(op), value) IN
    IF r.err # "none" THEN r ELSE QOk(Query(r.items, TRUE))

(* the first item whose key cannot be read, 0 if there is none *)
FirstBad(hp, q, key) ==
    IF \E i \in DOMAIN q : FieldOf(hp, q[i].val, key).err # "none"
    THEN CHOOSE i \in DOMAIN q :
            /\ FieldOf(hp, q[i].val, key).err # "none"
            /\ \A j \in 1..(i - 1) : FieldOf(hp, q[j].val, key).err = "none"
    ELSE 0

(* as SortItems, but reverse=True taken as sorting and then reversing *)
SortItems_reversed(hp, q, key, reverse) ==
    LET bad == FirstBad(hp, q, key)
        keyed == Keyed(q, [i \in DOMAIN q |-> FieldOf(hp, q[i].val, key).val.v])
    IN IF bad # 0 THEN QFail(FieldOf(hp, q[bad].val, key).err)
       ELSE IF Len(q) >= 2 /\ \E i \in DOMAIN q : IsRef(FieldOf(hp, q[i].val, key).val)
            THEN QFail("TypeError")
       ELSE IF reverse
            THEN QOk(Query(Reverse(Unkeyed(Sorted(keyed))), TRUE))
       ELSE QOk(Query(Unkeyed(Sorted(keyed)), TRUE))

(* sorted(items, key=lambda doc: doc[1][key], reverse=...): the keys are    *)
(* read first; with two items or more every key is compared, and a dict is *)
(* ordered with nothing; reverse=True is reverse, sort, reverse, which     *)
(* keeps equal keys in their order                                         *)
SortItems(hp, q, key, reverse) ==
    LET bad == FirstBad(hp, q, key)
        keyed == Keyed(q, [i \in DOMAIN q |-> FieldOf(hp, q[i].val, key).val.v])
    IN IF bad # 0 THEN QFail(FieldOf(hp, q[bad].val, key).err)
       ELSE IF Len(q) >= 2 /\ \E i \in DOMAIN q : IsRef(FieldOf(hp, q[i].val, key).val)
            THEN QFail("TypeError")
       ELSE IF reverse
            THEN QOk(Query(Reverse(Unkeyed(Sorted(Reverse(keyed)))), TRUE))
       ELSE QOk(Query(Unkeyed(Sorted(keyed)), TRUE))

(* as Query_order_by, but ascending whatever the direction *)
Query_order_by_ascending(hp, q, key, direction) == SortItems(hp, q, key, FALSE)

Query_order_by(hp, q, key, direction) == SortItems(hp, q, key, direction = "DESCENDING")

(* as Query_limit, but handing Query a plain mapping, which it sorts by id *)
Query_limit_sorted(q, limit_amount) ==
    IF limit_amount < 0 THEN QFail("ValueError")
    ELSE QOk(Query(SubSeq(q, 1, IF limit_amount < Len(q) THEN limit_amount ELSE Len(q)), FALSE))

(* islice(items, limit_amount) *)
Query_limit(q, limit_amount) ==
    IF limit_amount < 0 THEN QFail("ValueError")
    ELSE QOk(Query(SubSeq(q, 1, IF limit_amount < Len(q) THEN limit_amount ELSE Len(q)), TRUE))

(* one call of a chain: [m |-> method, f |-> field, cmp |-> op, v |-> value, *)
(*                       dir |-> direction, k |-> limit]                   *)
WhereStep(f, op, v) == [m |-> "where", f |-> f, cmp |-> op, v |-> v, dir |-> "", k |-> 0]
OrderStep(f, dir) == [m |-> "order_by", f |-> f, cmp |-> "", v |-> 0, dir |-> dir, k |-> 0]
LimitStep(k) == [m |-> "limit", f |-> "", cmp |-> "", v |-> 0, dir |-> "", k |-> k]

Apply(hp, q, st) ==
    CASE st.m = "where" -> Query_where(hp, q, st.f, st.cmp, st.v)
      [] st.m = "order_by" -> Query_order_by(hp, q, st.f, st.dir)
      [] st.m = "limit" -> Query_limit(q, st.k)

RECURSIVE Chain(_, _, _)
Chain(hp, q, steps) ==
    IF steps = <<>> THEN QOk(q)
    ELSE LET r == Apply(hp, q, Head(steps)) IN
         IF r.err # "none" THEN r ELSE Chain(hp, r.items, Tail(steps))

(* Query(collection): a value that is no dict has no items() *)
CollectionQuery(hp, h) ==
    LET g == get_by_path(hp, RefV(h.root), h.path) IN
    IF g.err # "none" THEN QFail(g.err)
    ELSE IF ~IsRef(g.val) THEN QFail("AttributeError")
    ELSE QOk(Query(hp[g.val.v], FALSE))

(* the calls chained on a returned Query, then get(): the snapshots' documents *)
Then(hp, r, steps) ==
    IF r.err # "none" THEN r
    ELSE LET c == Chain(hp, r.items, steps) IN
         IF c.err # "none" THEN c ELSE QOk(Query_get(c.items))

CollectionReference_get(hp, h) == Then(hp, CollectionQuery(hp, h), <<>>)

CollectionReference_where(hp, h, field, op, value) ==
    LET c == CollectionQuery(hp, h) IN
    IF c.err # "none" THEN c ELSE Query_where(hp, c.items, field, op, value)

CollectionReference_order_by(hp, h, key, direction) ==
    LET c == CollectionQuery(hp, h) IN
    IF c.err # "none" THEN c ELSE Query_order_by(hp, c.items, key, direction)

CollectionReference_limit(hp, h, limit_amount) ==
    LET c == CollectionQuery(hp, h) IN
    IF c.err # "none" THEN c ELSE Query_limit(c.items, limit_amount)

(* ------------------------------ actions ------------------------------- *)
(* the dict objects the caller can pass: to_dict() of any document it can read *)
Readable == {DocumentReference_get(heap, h) : h \in DocHandles}
ObjArgs == {ObjArg(g.val.v) : g \in {x \in Readable : x.err = "none" /\ IsRef(x.val)}}
LitArgs == {LitArg(d) : d \in DataLits}

(* the bound is on the objects alive once the call has returned: a call    *)
(* that creates no dict fits, and a dict a write replaces is dropped by it *)
Fits(hp) == Len(hp) = Len(heap) \/ Len(Live(hp, root, old)) <= MaxHeap
OkRet(o, h) == IF o.err = "none" THEN h ELSE NoHandle
Called(op, h) == [NoRes EXCEPT !.op = op, !.h = h]

(* One call at a time: each action is a whole call, enabled once the call  *)
(* before it has returned.                                                 *)
Collection ==
    /\ Idle
    /\ \E name \in TopNames :
        /\ HasKey(heap[root], name) \/ CanAlloc
        /\ Finish(MockFirestore_collection(heap, root, name), root, old,
                  [Called("collection", NoHandle) EXCEPT !.name = name,
                                                         !.ret = Handle(root, <<name>>)])

(* handles of an empty tree do not exist, so there is nothing of it to keep *)
Reset ==
    /\ Idle
    /\ CanAlloc
    /\ LET o == MockFirestore_reset(heap, root) IN
       Finish(o.heap, o.root, IF heap[root] = <<>> \/ o.root = root THEN old ELSE root,
              Called("reset", Handle(root, <<>>)))

DocGet ==
    /\ Idle
    /\ \E h \in DocHandles :
        LET g == DocumentReference_get(heap, h) IN
        Finish(heap, root, old,
               [Called("get", h) EXCEPT !.err = g.err,
                                        !.out = IF g.err = "none" THEN <<g.val>> ELSE <<>>])

DocDelete ==
    /\ Idle
    /\ \E h \in DocHandles :
        LET o == DocumentReference_delete(heap, h) IN
        Finish(o.heap, root, old, [Called("delete", h) EXCEPT !.err = o.err])

DocUpdate ==
    /\ Idle
    /\ \E h \in DocHandles, arg \in LitArgs :
        LET o == DocumentReference_update(heap, h, arg) IN
        Finish(o.heap, root, old,
               [Called("update", h) EXCEPT !.data = Contents(heap, arg), !.obj = arg.obj,
                                           !.err = o.err])

DocSet ==
    /\ Idle
    /\ \E h \in DocHandles, arg \in LitArgs \cup ObjArgs, merge \in BOOLEAN :
        LET o == DocumentReference_set(heap, h, arg, merge) IN
        /\ Fits(o.heap)
        /\ Finish(o.heap, root, old,
                  [Called("set", h) EXCEPT !.data = Contents(heap, arg),
                                           !.obj = IF o.obj = 0 THEN arg.obj ELSE o.obj,
                                           !.merge = merge, !.err = o.err])

DocCollection ==
    /\ Idle
    /\ \E h \in DocHandles, name \in SubNames :
        LET o == DocumentReference_collection(heap, h, name) IN
        /\ Len(h.path) < MaxDepth
        /\ Fits(o.heap)
        /\ Finish(o.heap, root, old,
                  [Called("subcollection", h) EXCEPT
                      !.name = name, !.err = o.err,
                      !.ret = OkRet(o, Handle(h.root, Append(h.path, name)))])

CollDocument ==
    /\ Idle
    /\ \E h \in CollHandles, name \in DocIds :
        LET o == CollectionReference_document(heap, h, name) IN
        /\ Len(h.path) < MaxDepth
        /\ Fits(o.heap)
        /\ Finish(o.heap, root, old,
                  [Called("document", h) EXCEPT
                      !.name = name, !.err = o.err,
                      !.ret = OkRet(o, Handle(h.root, Append(h.path, name)))])

CollAdd ==
    /\ Idle
    /\ \E h \in CollHandles, arg \in LitArgs \cup ObjArgs, document_id \in DocIds :
        LET o == CollectionReference_add(heap, h, arg, document_id) IN
        /\ Len(h.path) < MaxDepth
        /\ Fits(o.heap)
        /\ Finish(o.heap, root, old,
                  [Called("add", h) EXCEPT
                      !.name = document_id, !.data = Contents(heap, arg),
                      !.obj = IF o.obj = 0 THEN arg.obj ELSE o.obj, !.err = o.err,
                      !.ret = OkRet(o, Handle(h.root, Append(h.path, document_id)))])

CollGet ==
    /\ Idle
    /\ \E h \in CollHandles :
        LET r == CollectionReference_get(heap, h) IN
        Finish(heap, root, old, [Called("collget", h) EXCEPT !.err = r.err, !.out = r.items])

(* ---------------------------- query calls ----------------------------- *)
QueryIds == DocIds \cup {"c"}             \* ids of the documents queried
QueryVals == 1..(MaxVal + 1)              \* values of their field n
QueryOps == CompareOps \cup {"!="}
Directions == {"ASCENDING", "DESCENDING", "None"}     \* None: direction omitted
Limits == (-1)..2

WhereSteps == {WhereStep("n", op, v) : op \in QueryOps, v \in Vals}
OrderSteps == {OrderStep("n", dir) : dir \in Directions}
LimitSteps == {LimitStep(k) : k \in Limits}
(* what the caller chains on the Query returned: nothing, or one more call *)
More(first) ==
    {<<>>} \cup {<<st>> : st \in IF first.m = "limit" THEN WhereSteps ELSE LimitSteps}

TopHandles == {h \in CollHandles : Len(h.path) = 1}

Queried(h, first, more, r) ==
    Finish(heap, root, old,
           [Called(first.m, h) EXCEPT !.q = <<first>> \o more, !.err = r.err, !.out = r.items])

CollWhere ==
    /\ Idle
    /\ \E h \in TopHandles, first \in WhereSteps :
        \E more \in More(first) :
            Queried(h, first, more,
                    Then(heap, CollectionReference_where(heap, h, first.f, first.cmp, first.v),
                         more))

CollOrderBy ==
    /\ Idle
    /\ \E h \in TopHandles, first \in OrderSteps :
        \E more \in More(first) :
            Queried(h, first, more,
                    Then(heap, CollectionReference_order_by(heap, h, first.f, first.dir), more))

CollLimit ==
    /\ Idle
    /\ \E h \in TopHandles, first \in LimitSteps :
        \E more \in More(first) :
            Queried(h, first, more,
                    Then(heap, CollectionReference_limit(heap, h, first.k), more))

(* The queries are functions of the collection they read.  They are run on *)
(* every collection c of up to three documents, written in any order, each *)
(* document being {}, {m: 1}, {n: v} or a document whose only key n is a   *)
(* sub-collection: stores that add, update and collection build.           *)
DocKinds == {IntV(v) : v \in QueryVals}
            \cup {[t |-> "empty", v |-> 0], [t |-> "m", v |-> 0], [t |-> "sub", v |-> 0]}
IdSeqs == {ids \in UNION {[1..n -> QueryIds] : n \in 0..Cardinality(QueryIds)} :
             \A i, j \in DOMAIN ids : i # j => ids[i] # ids[j]}

DocOfKind(kind, sub) ==
    CASE kind.t = "int" -> <<Entry("n", kind)>>
      [] kind.t = "empty" -> <<>>
      [] kind.t = "m" -> <<Entry("m", IntV(1))>>
      [] kind.t = "sub" -> <<Entry("n", RefV(sub))>>

RECURSIVE Build(_, _, _, _)
Build(ids, kinds, i, hp) ==
    IF i > Len(ids) THEN hp
    ELSE LET a == NewAddr(hp)
             hp1 == Append(hp, DocOfKind(kinds[i], a + 1))
             hp2 == IF kinds[i].t = "sub" THEN Append(hp1, <<>>) ELSE hp1
         IN Build(ids, kinds, i + 1,
                  [hp2 EXCEPT ![2] = Append(@, Entry(ids[i], RefV(a)))])

InitQ ==
    /\ \E ids \in IdSeqs :
        \E kinds \in [DOMAIN ids -> DocKinds] :
            heap = Build(ids, kinds, 1, <<<<Entry("c", RefV(2))>>, <<>>>>)
    /\ root = 1
    /\ old = 0
    /\ pre = <<>>
    /\ res = NoRes

NextQ ==
    \/ CollGet
    \/ CollWhere
    \/ CollOrderBy
    \/ CollLimit
    \/ Return

SpecQ == InitQ /\ [][NextQ]_vars

(* The store after a reset: the caller wrote a document into the           *)
(* collection c, called reset() and then collection('c') again.  It holds  *)
(* the handles of the discarded tree and those of the new tree.            *)
OldIdSeqs == {ids \in IdSeqs : Len(ids) = 1 /\ Range(ids) \subseteq DocIds}

InitR ==
    /\ \E ids \in OldIdSeqs :
        \E ds \in [DOMAIN ids -> DataLits] :
            heap = << <<Entry("c", RefV(2))>>, <<>>, <<Entry("c", RefV(4))>>,
                      [i \in DOMAIN ids |-> Entry(ids[i], RefV(4 + i))] >> \o ds
    /\ root = 1
    /\ old = 3
    /\ pre = <<>>
    /\ res = NoRes

NextR ==
    \/ Collection
    \/ DocGet
    \/ DocDelete
    \/ DocUpdate
    \/ DocSet
    \/ DocCollection
    \/ CollDocument
    \/ CollAdd
    \/ CollGet
    \/ Return

SpecR == InitR /\ [][NextR]_vars

Next ==
    \/ Collection
    \/ Reset
    \/ DocGet
    \/ DocDelete
    \/ DocUpdate
    \/ DocSet
    \/ DocCollection
    \/ CollDocument
    \/ CollAdd
    \/ CollGet
    \/ Return

Spec == Init /\ [][Next]_vars
(* ======================== properties of the code ======================= *)
ValueAt(hp, h) == get_by_path(hp, RefV(h.root), h.path)
IsDictAt(hp, h) == ValueAt(hp, h).err = "none" /\ IsRef(ValueAt(hp, h).val)
DictAt(hp, h) == hp[ValueAt(hp, h).val.v]
Parent(h) == Handle(h.root, Front(h.path))
Child(h, name) == Handle(h.root, Append(h.path, name))

(* equal as mappings, whatever the order of the keys; a nested dict is equal *)
(* when it is the same object                                              *)
SameMap(d1, d2) == Keys(d1) = Keys(d2) /\ \A k \in Keys(d1) : Lookup(d1, k) = Lookup(d2, k)

(* the snapshot get() returns for h holds exactly the mapping d *)
ReadsBack(hp, h, d) ==
    LET g == DocumentReference_get(hp, h) IN
    g.err = "none" /\ IsRef(g.val) /\ SameMap(to_dict(hp, g.val), d)

(* C1: after set(data) with merge=False on a document handle whose parent  *)
(* collection exists, get().to_dict() equals data, whatever the document   *)
(* held before.                                                            *)
C1_SetRoundTrip ==
    (res.op = "set" /\ ~res.merge /\ IsDictAt(pre, Parent(res.h)))
        => (res.err = "none" /\ ReadsBack(heap, res.h, res.data))

(* a set that replaced a document holding a key the new mapping has not *)
C1_Witness ==
    /\ res.op = "set" /\ ~res.merge /\ res.err = "none"
    /\ IsDictAt(pre, res.h)
    /\ Keys(DictAt(pre, res.h)) \ Keys(res.data) # {}
    /\ res.data # <<>>

(* C2: on an existing document, set(data, merge=True) and update(data)     *)
(* leave the keys of old and of data: those of data with data's values,    *)
(* the others of old with their old values.                                *)
Merged(old_, data, new) ==
    /\ Keys(new) = Keys(old_) \cup Keys(data)
    /\ \A k \in Keys(data) : Lookup(new, k) = Lookup(data, k)
    /\ \A k \in Keys(old_) \ Keys(data) : Lookup(new, k) = Lookup(old_, k)

(* The document is the mapping object the handle led to when the call was  *)
(* made. A mapping read from a document and written below that document    *)
(* puts the document on its own path; the handle reads the same object     *)
(* after the call whenever the path does not pass through it.              *)
Passes(hp, h) ==
    {ValueAt(hp, Handle(h.root, SubSeq(h.path, 1, i))).val.v : i \in 0..(Len(h.path) - 1)}

C2_ShallowMerge ==
    ((res.op = "update" \/ (res.op = "set" /\ res.merge)) /\ IsDictAt(pre, res.h))
        => LET doc == ValueAt(pre, res.h).val.v IN
           /\ res.err = "none"
           /\ Merged(pre[doc], res.data, heap[doc])
           /\ doc \notin Passes(pre, res.h) => ValueAt(heap, res.h) = ValueAt(pre, res.h)

(* a merge that kept one key and gave another key a new value *)
C2_Witness ==
    /\ res.op = "set" /\ res.merge /\ res.err = "none"
    /\ IsDictAt(pre, res.h)
    /\ Keys(DictAt(pre, res.h)) \ Keys(res.data) # {}
    /\ \E k \in Keys(DictAt(pre, res.h)) \cap Keys(res.data) :
          Lookup(DictAt(pre, res.h), k) # Lookup(res.data, k)

(* C3: after a delete() that succeeded, get() on the same handle does not  *)
(* raise and yields a snapshot with exists = False and to_dict() = {}.     *)
C3_GetAfterDelete ==
    (res.op = "delete" /\ res.err = "none")
        => LET g == DocumentReference_get(heap, res.h) IN
           /\ g.err = "none"
           /\ ~exists(heap, g.val)
           /\ to_dict(heap, g.val) = <<>>

(* C4: add(data, document_id=i) on an existing collection raises           *)
(* AlreadyExists and leaves the store as it was when i is in the           *)
(* collection; otherwise it creates document i holding data and returns a  *)
(* handle whose id is i.                                                   *)
C4_Add ==
    (res.op = "add" /\ IsDictAt(pre, res.h))
        => IF HasKey(DictAt(pre, res.h), res.name)
           THEN res.err = "AlreadyExists" /\ heap = pre /\ res.ret = NoHandle
           ELSE /\ res.err = "none"
                /\ res.ret = Child(res.h, res.name)
                /\ DocumentReference_id(res.ret) = res.name
                /\ ReadsBack(heap, res.ret, res.data)
                /\ Keys(DictAt(heap, res.h)) = Keys(DictAt(pre, res.h)) \cup {res.name}

(* an add refused for a document that holds something else than data *)
C4_Witness ==
    /\ res.op = "add" /\ res.err = "AlreadyExists"
    /\ IsDictAt(pre, Child(res.h, res.name))
    /\ DictAt(pre, Child(res.h, res.name)) # <<>>
    /\ ~SameMap(DictAt(pre, Child(res.h, res.name)), res.data)

(* ------------------------- queries and reads --------------------------- *)
DocOf(hp, coll, id) == hp[Lookup(coll, id).v]
HasField(hp, coll, id, f) == IsRef(Lookup(coll, id)) /\ HasKey(DocOf(hp, coll, id), f)
HasNumber(hp, coll, id, f) ==
    HasField(hp, coll, id, f) /\ ~IsRef(Lookup(DocOf(hp, coll, id), f))
NumberOf(hp, x, f) == Lookup(hp[x.v], f).v

Holds(op, x, y) ==
    CASE op = "==" -> x = y
      [] op = "<" -> x < y
      [] op = "<=" -> x <= y
      [] op = ">" -> x > y
      [] op = ">=" -> x >= y

(* the ids of S in lexicographic order, and the documents stored under them *)
InOrder(S) ==
    CHOOSE s \in [1..Cardinality(S) -> S] : \A i, j \in DOMAIN s : i < j => StrLess(s[i], s[j])
DocsInOrder(coll, S) == [i \in 1..Cardinality(S) |-> Lookup(coll, InOrder(S)[i])]

(* C5: over a collection whose documents all contain the field f,          *)
(* where(f, op, v).get(), op one of == < <= > >=, yields the documents     *)
(* whose f satisfies doc[f] op v, no others, each once, in lexicographic   *)
(* order of document id.  (An order comparison needs f to hold a number;   *)
(* a sub-collection stored under the key f equals no number.)              *)
C5_Where ==
    (/\ res.op = "where" /\ Len(res.q) = 1 /\ res.q[1].cmp \in CompareOps
     /\ IsDictAt(pre, res.h)
     /\ \A id \in Keys(DictAt(pre, res.h)) :
           IF res.q[1].cmp = "==" THEN HasField(pre, DictAt(pre, res.h), id, res.q[1].f)
           ELSE HasNumber(pre, DictAt(pre, res.h), id, res.q[1].f))
        => LET coll == DictAt(pre, res.h)
               st == res.q[1]
               hit == {id \in Keys(coll) :
                          /\ HasNumber(pre, coll, id, st.f)
                          /\ Holds(st.cmp, NumberOf(pre, Lookup(coll, id), st.f), st.v)}
           IN res.err = "none" /\ res.out = DocsInOrder(coll, hit)

(* where with > over three documents written out of id order: two are      *)
(* yielded and one is not                                                  *)
C5_Witness ==
    /\ res.op = "where" /\ Len(res.q) = 1 /\ res.q[1].cmp = ">" /\ res.err = "none"
    /\ Len(res.out) = 2
    /\ Len(DictAt(pre, res.h)) = 3
    /\ \A id \in Keys(DictAt(pre, res.h)) : HasNumber(pre, DictAt(pre, res.h), id, "n")
    /\ StrLess(DictAt(pre, res.h)[2].k, DictAt(pre, res.h)[1].k)

(* C6: over a collection whose documents all carry the field n with        *)
(* pairwise distinct values, order_by('n', 'DESCENDING').limit(k).get()    *)
(* yields min(k, size) documents, those with the largest n, in strictly    *)
(* decreasing order of n; with 'ASCENDING' or no direction the order is    *)
(* increasing.                                                             *)
C6_OrderByLimit ==
    (/\ res.op = "order_by"
     /\ Len(res.q) = 2 => res.q[2].k >= 0
     /\ IsDictAt(pre, res.h)
     /\ \A id \in Keys(DictAt(pre, res.h)) : HasNumber(pre, DictAt(pre, res.h), id, res.q[1].f)
     /\ \A i, j \in Keys(DictAt(pre, res.h)) :
           i # j => NumberOf(pre, Lookup(DictAt(pre, res.h), i), res.q[1].f)
                    # NumberOf(pre, Lookup(DictAt(pre, res.h), j), res.q[1].f))
        => LET coll == DictAt(pre, res.h)
               f == res.q[1].f
               desc == res.q[1].dir = "DESCENDING"
               size == Len(coll)
               k == IF Len(res.q) = 2 THEN res.q[2].k ELSE size
               docs == {Lookup(coll, id) : id \in Keys(coll)}
               Before(x, y) == IF desc THEN NumberOf(pre, x, f) > NumberOf(pre, y, f)
                               ELSE NumberOf(pre, x, f) < NumberOf(pre, y, f)
           IN /\ res.err = "none"
              /\ Len(res.out) = IF k < size THEN k ELSE size
              /\ Range(res.out) \subseteq docs
              /\ \A i, j \in DOMAIN res.out : i < j => Before(res.out[i], res.out[j])
              /\ \A x \in Range(res.out), y \in docs \ Range(res.out) : Before(x, y)

(* descending with limit 2 over three documents written out of order of n *)
C6_Witness ==
    /\ res.op = "order_by" /\ Len(res.q) = 2 /\ res.q[1].dir = "DESCENDING"
    /\ res.q[2].k = 2 /\ res.err = "none" /\ Len(res.out) = 2
    /\ Len(DictAt(pre, res.h)) = 3
    /\ NumberOf(pre, res.out[1], "n") > NumberOf(pre, res.out[2], "n")
    /\ \A id \in Keys(DictAt(pre, res.h)) : HasNumber(pre, DictAt(pre, res.h), id, "n")
    /\ NumberOf(pre, DictAt(pre, res.h)[1].val, "n") < NumberOf(pre, DictAt(pre, res.h)[2].val, "n")

(* C7: after any sequence of operations, reset() followed by               *)
(* collection(c).get() yields an empty sequence, for every name c.         *)
C7_ResetEmpties ==
    res.op = "reset"
        => \A c \in TopNames :
              CollectionReference_get(MockFirestore_collection(heap, root, c),
                                      Handle(root, <<c>>)) = QOk(<<>>)

(* a reset of a store that held a document with fields *)
C7_Witness ==
    /\ res.op = "reset"
    /\ \E h \in HandlesOf(pre, res.h.root) :
          IsDoc(h) /\ IsDictAt(pre, h) /\ DictAt(pre, h) # <<>>

(* C8: CollectionReference.get() yields one snapshot for every document of *)
(* the collection, in lexicographic order of document id, whatever the     *)
(* order in which the documents were written.                              *)
C8_GetInIdOrder ==
    (res.op = "collget" /\ IsDictAt(pre, res.h))
        => /\ res.err = "none"
           /\ res.out = DocsInOrder(DictAt(pre, res.h), Keys(DictAt(pre, res.h)))

(* a get over a collection whose documents were written out of id order *)
C8_Witness ==
    /\ res.op = "collget" /\ res.err = "none"
    /\ Len(res.out) = 2
    /\ StrLess(DictAt(pre, res.h)[2].k, DictAt(pre, res.h)[1].k)
    /\ res.out[1] # res.out[2]

(* C9: where(f, op, v) over a collection in which a document lacks the     *)
(* field f raises an error, whatever the other documents hold and wherever *)
(* the lacking document comes in id order, and leaves the store unchanged. *)
Lacks(hp, coll, id, f) == IsRef(Lookup(coll, id)) /\ ~HasKey(DocOf(hp, coll, id), f)

C9_WhereMissingField ==
    (/\ res.op = "where" /\ Len(res.q) = 1
     /\ IsDictAt(pre, res.h)
     /\ \E id \in Keys(DictAt(pre, res.h)) : Lacks(pre, DictAt(pre, res.h), id, res.q[1].f))
        => res.err # "none" /\ heap = pre

(* where raising for a lacking document that comes last in id order, after *)
(* a document that satisfies the comparison                                *)
C9_Witness ==
    /\ res.op = "where" /\ Len(res.q) = 1 /\ res.err = "KeyError"
    /\ LET coll == DictAt(pre, res.h) IN
       /\ Len(coll) = 3
       /\ Lacks(pre, coll, InOrder(Keys(coll))[3], "n")
       /\ DocOf(pre, coll, InOrder(Keys(coll))[3]) # <<>>
       /\ \E id \in Keys(coll) :
             /\ HasNumber(pre, coll, id, "n")
             /\ res.q[1].cmp \in CompareOps
             /\ Holds(res.q[1].cmp, NumberOf(pre, Lookup(coll, id), "n"), res.q[1].v)

(* C10: document(name) on a collection adds the one entry name -> {} and   *)
(* changes nothing else when name is absent, and leaves the store as it is *)
(* when name is present; the handle it returns depends on the name alone   *)
(* and addresses that entry, so what is written through one such handle is *)
(* read back through another.                                              *)
C10_Document ==
    (res.op = "document" /\ IsDictAt(pre, res.h))
        => LET coll == DictAt(pre, res.h)
               a == ValueAt(pre, res.h).val.v
           IN /\ res.err = "none"
              /\ res.ret = Child(res.h, res.name)
              /\ IF HasKey(coll, res.name)
                 THEN heap = pre /\ ValueAt(heap, res.ret).val = Lookup(coll, res.name)
                 ELSE /\ Len(heap) = Len(pre) + 1
                      /\ heap[Len(heap)] = <<>>
                      /\ heap[a] = Append(coll, Entry(res.name, RefV(Len(heap))))
                      /\ \A b \in DOMAIN pre \ {a} : heap[b] = pre[b]
                      /\ ValueAt(heap, res.ret).val = RefV(Len(heap))
              /\ \A d \in DataLits :
                    ReadsBack(DocumentReference_set(heap, Child(res.h, res.name),
                                                    LitArg(d), FALSE).heap, res.ret, d)

(* document(name) for a name whose document holds fields *)
C10_Witness ==
    /\ res.op = "document" /\ res.err = "none"
    /\ IsDictAt(pre, res.ret)
    /\ DictAt(pre, res.ret) # <<>>
    /\ IsDictAt(heap, res.ret)

(* -------------------- snapshots and absent documents ------------------- *)
(* C11: a snapshot taken of a document keeps its to_dict() and its exists  *)
(* when the document is then modified through update(), set(merge=True),   *)
(* set(merge=False) or delete().                                           *)
C11_SnapshotImmutable ==
    (res.op \in {"update", "set", "delete"} /\ IsDictAt(pre, res.h))
        => LET s == DocumentReference_get(pre, res.h).val IN
           /\ SameMap(to_dict(heap, s), to_dict(pre, s))
           /\ exists(heap, s) = exists(pre, s)

(* C12: update(data) and delete() on a document that is not in its parent  *)
(* collection raise KeyError, create nothing and leave the store as it     *)
(* was; after a delete() that succeeded, a second delete() and an update() *)
(* on the same handle raise it too.                                        *)
Absent(hp, h) == IsDictAt(hp, Parent(h)) /\ ~HasKey(DictAt(hp, Parent(h)), Last(h.path))

C12_AbsentTarget ==
    /\ (res.op \in {"update", "delete"} /\ Absent(pre, res.h))
           => res.err = "KeyError" /\ heap = pre
    /\ (res.op = "delete" /\ res.err = "none")
           => /\ Absent(heap, res.h)
              /\ DocumentReference_delete(heap, res.h) = Outcome("KeyError", heap, 0)
              /\ \A d \in DataLits :
                    DocumentReference_update(heap, res.h, LitArg(d)) = Outcome("KeyError", heap, 0)

(* an update with fields refused for an absent document, beside a document *)
(* that is there                                                           *)
C12_Witness ==
    /\ res.op = "update" /\ res.err = "KeyError" /\ res.data # <<>>
    /\ Absent(pre, res.h)
    /\ DictAt(pre, Parent(res.h)) # <<>>

(* C13: where(field, op, value) with an operator outside == < <= > >=      *)
(* raises an error instead of returning a Query, whatever the collection   *)
(* holds, an empty collection included.                                    *)
C13_UnsupportedOp ==
    (/\ res.op = "where" /\ Len(res.q) = 1
     /\ res.q[1].cmp \notin CompareOps
     /\ IsDictAt(pre, res.h))
        => res.err # "none"

(* C14: the path of a CollectionReference returned without error resolves  *)
(* to a mapping from document ids to document mappings, also when it was   *)
(* returned by DocumentReference.collection(name) for a document that has  *)
(* a data field called name.                                               *)
IsCollectionAt(hp, h) ==
    /\ IsDictAt(hp, h)
    /\ \A id \in Keys(DictAt(hp, h)) : IsRef(Lookup(DictAt(hp, h), id))

C14_PathShape ==
    (res.op \in {"collection", "subcollection", "document", "add"} /\ res.err = "none")
        => IF IsColl(res.ret) THEN IsCollectionAt(heap, res.ret) ELSE IsDictAt(heap, res.ret)

(* --------------------------- chained queries --------------------------- *)
FirstN(s, n) == SubSeq(s, 1, IF n < Len(s) THEN n ELSE Len(s))
IsNumberIn(hp, x, f) == IsRef(x) /\ HasKey(hp[x.v], f) /\ ~IsRef(Lookup(hp[x.v], f))
Matching(hp, s, st) == SelectSeq(s, LAMBDA x : Holds(st.cmp, NumberOf(hp, x, st.f), st.v))

(* C15: where, order_by and limit leave the store as it is, and a chain    *)
(* applies its calls from left to right, each to the entries the call      *)
(* before it returned: where(f,op,v).limit(k) yields the first k of the    *)
(* documents that match, limit(k).where(f,op,v) those of the first k       *)
(* documents that match, and order_by(f).limit(k) the first k in the order *)
(* of f, not in the order of the ids.                                      *)
C15_Chaining ==
    (res.op \in {"where", "order_by", "limit"} /\ IsDictAt(pre, res.h))
        => LET coll == DictAt(pre, res.h)
               docs == DocsInOrder(coll, Keys(coll))
               one == res.q[1]
               two == res.q[2]
               Num(s, f) == \A i \in DOMAIN s : IsNumberIn(pre, s[i], f)
               Key(x) == NumberOf(pre, x, one.f)
               Before(x, y) == IF one.dir = "DESCENDING" THEN Key(x) >= Key(y)
                               ELSE Key(x) <= Key(y)
           IN /\ heap = pre
              /\ (res.op = "where" /\ Len(res.q) = 2 /\ one.cmp \in CompareOps
                     /\ two.k >= 0 /\ Num(docs, one.f))
                    => res.err = "none" /\ res.out = FirstN(Matching(pre, docs, one), two.k)
              /\ (res.op = "limit" /\ Len(res.q) = 2 /\ two.cmp \in CompareOps
                     /\ one.k >= 0 /\ Num(FirstN(docs, one.k), two.f))
                    => res.err = "none" /\ res.out = Matching(pre, FirstN(docs, one.k), two)
              /\ (res.op = "order_by" /\ Len(res.q) = 2 /\ two.k >= 0 /\ Num(docs, one.f))
                    => /\ res.err = "none"
                       /\ Len(res.out) = Len(FirstN(docs, two.k))
                       /\ Range(res.out) \subseteq Range(docs)
                       /\ \A i, j \in DOMAIN res.out : i < j => Before(res.out[i], res.out[j])
                       /\ \A x \in Range(res.out), y \in Range(docs) \ Range(res.out) :
                             Before(x, y)

(* limit(1).where(...) yielding nothing over a collection in which a       *)
(* document behind the first matches, so that where(...).limit(1) yields it *)
C15_Witness ==
    /\ res.op = "limit" /\ Len(res.q) = 2 /\ res.q[1].k = 1 /\ res.q[2].cmp = "=="
    /\ res.err = "none" /\ res.out = <<>>
    /\ LET docs == DocsInOrder(DictAt(pre, res.h), Keys(DictAt(pre, res.h))) IN
       /\ Len(docs) = 3
       /\ \A i \in DOMAIN docs : IsNumberIn(pre, docs[i], "n")
       /\ Matching(pre, docs, res.q[2]) # <<>>

(* C16: order_by(key, direction) called on a collection whose documents    *)
(* all hold a number at key yields every document once, in the order of    *)
(* key for the direction, and two documents with the same value at key     *)
(* come in the lexicographic order of their ids, for ASCENDING and for     *)
(* DESCENDING alike.                                                       *)
IdOf(coll, x) == CHOOSE id \in Keys(coll) : Lookup(coll, id) = x

C16_StableOrder ==
    (/\ res.op = "order_by" /\ Len(res.q) = 1
     /\ IsDictAt(pre, res.h)
     /\ \A id \in Keys(DictAt(pre, res.h)) : HasNumber(pre, DictAt(pre, res.h), id, res.q[1].f))
        => LET coll == DictAt(pre, res.h)
               Key(x) == NumberOf(pre, x, res.q[1].f)
           IN /\ res.err = "none"
              /\ Len(res.out) = Len(coll)
              /\ Range(res.out) = {Lookup(coll, id) : id \in Keys(coll)}
              /\ \A i, j \in DOMAIN res.out :
                    i < j => /\ IF res.q[1].dir = "DESCENDING"
                                THEN Key(res.out[i]) >= Key(res.out[j])
                                ELSE Key(res.out[i]) <= Key(res.out[j])
                             /\ Key(res.out[i]) = Key(res.out[j])
                                   => StrLess(IdOf(coll, res.out[i]), IdOf(coll, res.out[j]))

(* DESCENDING over three documents, two of them with the same value and a  *)
(* third with a smaller one, written against the order of their ids        *)
C16_Witness ==
    /\ res.op = "order_by" /\ Len(res.q) = 1 /\ res.q[1].dir = "DESCENDING"
    /\ res.err = "none" /\ Len(res.out) = 3
    /\ \A i \in DOMAIN res.out : IsNumberIn(pre, res.out[i], "n")
    /\ NumberOf(pre, res.out[1], "n") = NumberOf(pre, res.out[2], "n")
    /\ NumberOf(pre, res.out[2], "n") > NumberOf(pre, res.out[3], "n")
    /\ StrLess(DictAt(pre, res.h)[2].k, DictAt(pre, res.h)[1].k)

(* ------------------------- handles and reset --------------------------- *)
(* C17: a write (set, update, add, document) through a handle obtained     *)
(* before reset() is not visible through the handles obtained from the     *)
(* MockFirestore after it: everything the current root leads to is as it   *)
(* was before the call.                                                    *)
C17_Detached ==
    (/\ res.op \in {"set", "update", "add", "document"}
     /\ old # 0 /\ old # root /\ res.h.root = old)
        => \A a \in Range(Walk(pre, <<root>>, <<>>)) : heap[a] = pre[a]

(* --------------------------- sub-collections --------------------------- *)
Under(h, k) == {Handle(h.root, p) : p \in {q \in AllPaths :
                    Len(q) > Len(h.path) /\ SubSeq(q, 1, Len(h.path) + 1) = Append(h.path, k)}}
SubAt(hp, h, k) ==
    IsDictAt(hp, h) /\ HasKey(DictAt(hp, h), k) /\ IsRef(Lookup(DictAt(hp, h), k))

(* C18, as first stated for set: set(data, merge=False) on a document      *)
(* removes every sub-collection the document has.                          *)
C18_SetRemoves ==
    \A k \in SubNames :
        (res.op = "set" /\ ~res.merge /\ res.err = "none" /\ SubAt(pre, res.h, k))
            => ValueAt(heap, Child(res.h, k)) # Ok(Lookup(DictAt(pre, res.h), k))

(* C18: collection(name) for a name the document has not adds the key name *)
(* with an empty mapping to the document's mapping, so that the snapshot   *)
(* has exists = True and to_dict() holds name.  For a sub-collection under *)
(* the key k of a document: set(data, merge=False) with data not holding k *)
(* leaves nothing under k (the sub-collection and the paths of all its     *)
(* documents raise KeyError); update(data) and set(data, merge=True) with  *)
(* data not holding k keep the sub-collection and what it holds; and when  *)
(* data holds k, the document has data[k] under k afterwards.              *)
C18_SubCollection ==
    /\ (/\ res.op = "subcollection" /\ IsDictAt(pre, res.h)
         /\ ~HasKey(DictAt(pre, res.h), res.name))
           => LET g == DocumentReference_get(heap, res.h) IN
              /\ res.err = "none" /\ g.err = "none"
              /\ exists(heap, g.val)
              /\ Keys(to_dict(heap, g.val)) = Keys(DictAt(pre, res.h)) \cup {res.name}
              /\ IsDictAt(heap, res.ret) /\ DictAt(heap, res.ret) = <<>>
    /\ \A k \in SubNames :
          (res.op \in {"set", "update"} /\ res.err = "none" /\ SubAt(pre, res.h, k))
            => LET doc == ValueAt(pre, res.h).val.v
                   sub == Lookup(pre[doc], k)
                   replaced == res.op = "set" /\ ~res.merge
               IN IF HasKey(res.data, k)
                  THEN IF replaced
                       THEN ValueAt(heap, Child(res.h, k)) = Ok(Lookup(res.data, k))
                       ELSE Lookup(heap[doc], k) = Lookup(res.data, k)
                  ELSE IF replaced
                       THEN \A x \in Under(res.h, k) : ValueAt(heap, x).err = "KeyError"
                       ELSE /\ Lookup(heap[doc], k) = sub
                            /\ heap[sub.v] = pre[sub.v]
                            /\ doc \notin Passes(pre, res.h)
                                  => ValueAt(heap, Child(res.h, k)) = Ok(sub)

(* set(merge=False) with a field m over a document that has a              *)
(* sub-collection, which is gone afterwards                                *)
C18_Witness ==
    /\ res.op = "set" /\ ~res.merge /\ res.err = "none"
    /\ res.data # <<>> /\ ~HasKey(res.data, "n")
    /\ SubAt(pre, res.h, "n")
    /\ ValueAt(heap, Child(res.h, "n")).err = "KeyError"

(* ----------------------- frame of document writes ---------------------- *)
(* the documents the caller can address, other than h and than what lies   *)
(* below h                                                                 *)
Others(hp, h) ==
    {x \in HandlesOf(hp, root) \cup HandlesOf(hp, old) :
        /\ IsDoc(x) /\ IsDictAt(hp, x)
        /\ ~(x.root = h.root /\ Len(x.path) >= Len(h.path)
               /\ SubSeq(x.path, 1, Len(h.path)) = h.path)}

(* C19: set, update and delete on a document change that document's entry  *)
(* only: every other document, of the same collection or of another one,   *)
(* holds after the call what it held before it.                            *)
C19_Frame ==
    (res.op \in {"set", "update", "delete"} /\ IsDoc(res.h))
        => \A x \in Others(pre, res.h) :
              IsDictAt(heap, x) /\ DictAt(heap, x) = DictAt(pre, x)

(* --------------------------- existence for add ------------------------- *)
(* C20: add(data, document_id=i) on a collection raises AlreadyExists      *)
(* exactly when i is a key of the collection mapping: also for an id that  *)
(* document(i) has just materialized and whose snapshot has exists =       *)
(* False, and not for the id of a document that has just been deleted.     *)
C20_AddStructural ==
    /\ (res.op = "add" /\ IsDictAt(pre, res.h))
           => (res.err = "AlreadyExists" <=> HasKey(DictAt(pre, res.h), res.name))
    /\ (/\ res.op = "document" /\ res.err = "none"
         /\ IsDictAt(pre, res.h) /\ ~HasKey(DictAt(pre, res.h), res.name))
           => /\ ~exists(heap, DocumentReference_get(heap, res.ret).val)
              /\ \A d \in DataLits :
                    CollectionReference_add(heap, res.h, LitArg(d), res.name)
                        = Outcome("AlreadyExists", heap, 0)
    /\ (res.op = "delete" /\ res.err = "none")
           => \A d \in DataLits :
                 CollectionReference_add(heap, Parent(res.h), LitArg(d),
                                         DocumentReference_id(res.h)).err = "none"

(* add refused for an id whose document is there and empty, so that its    *)
(* snapshot has exists = False                                             *)
C20_Witness ==
    /\ res.op = "add" /\ res.err = "AlreadyExists" /\ res.data # <<>>
    /\ IsDictAt(pre, Child(res.h, res.name))
    /\ ~exists(pre, DocumentReference_get(pre, Child(res.h, res.name)).val)
====
